---- MODULE Spec2Model ----
(***************************************************************************)
(* The deep-research workflow: the scoping stage (clarify_with_user,       *)
(* write_research_brief), the multi-agent supervisor (supervisor,          *)
(* supervisor_tools) with its concurrently running researcher agents       *)
(* (llm_call, tool_node, compress_research), and final_report_generation.  *)
(*                                                                         *)
(* Every message content is a tuple of strings, so that a formatted        *)
(* string (an f-string, a "\n".join) is the concatenation of its parts.    *)
(***************************************************************************)
EXTENDS Integers, Sequences, FiniteSets, TLC

VARIABLES
    node,                 \* node of the full workflow graph that runs next
    messages,             \* AgentState.messages: the conversation with the user
    response,             \* <<>> or <<r>>: the ClarifyWithUser decision, once made
    research_brief,       \* AgentState/SupervisorState.research_brief
    supervisor_messages,  \* SupervisorState.supervisor_messages
    notes,                \* SupervisorState.notes
    raw_notes,            \* SupervisorState.raw_notes
    research_iterations,  \* SupervisorState.research_iterations
    final_report,         \* AgentState.final_report
    sup_node,             \* node of the supervisor graph that runs next
    tool_messages,        \* local tool_messages of supervisor_tools, held across the await
    workers,              \* the researcher runs handed to asyncio.gather, in call order
    completed,            \* indices of workers in the order they returned
    next_id,              \* next unused tool call id
    last_step,            \* which supervisor branch ran last
    search_results,       \* tavily_search: the responses of tavily_search_multiple
    unique_results,       \* tavily_search: the dict of deduplicate_search_results
    search_step,          \* position in the search adapter
    _client,              \* research_agent_mcp: the module global _client
    constructed,          \* number of MultiServerMCPClient objects constructed
    mcp_workers           \* the runs of the MCP researcher graph on the event loop

vars == <<node, messages, response, research_brief, supervisor_messages, notes,
          raw_notes, research_iterations, final_report, sup_node, tool_messages,
          workers, completed, next_id, last_step, search_results,
          unique_results, search_step, _client, constructed, mcp_workers>>

\* the state of the workflow and of its researchers
workflow_vars == <<node, messages, response, research_brief, supervisor_messages,
                   notes, raw_notes, research_iterations, final_report, sup_node,
                   tool_messages, workers, completed, next_id, last_step>>

\* the state of the search adapter
search_vars == <<search_results, unique_results, search_step>>

\* the state of the MCP researchers
mcp_vars == <<_client, constructed, mcp_workers>>

----------------------------------------------------------------------------
\* Bounds of the model

\* most tool calls in one assistant message of the supervisor model
MaxCallsPerMsg == 3

\* most tool calls the supervisor model emits in one run
MaxToolCalls == 6

\* most tool calls it emits in a run in which a response carries several
MaxParallelCalls == 4

\* most tool-calling responses of one researcher's model
MaxWorkerIters == 1

\* most delegations in a response that delegates and does nothing else
MaxFanOut == 4

\* most tool-calling responses of a researcher's model on an open-ended topic
MaxOpenIters == 7

\* the user's request: a plain one, one that asks for a broad survey, or
\* one that asks a focused question
Request == "request"
BroadRequest == "broad request"
FocusedRequest == "focused request"

\* a topic on which the researcher's model keeps asking for tools
OpenTopic == "open topic"

\* the values the inference calls choose from
Briefs(msgs) == {"brief on " \o msgs[1].content[1]}
Reflections == {"reflection"}

\* an argument dict without the key the tool reads
EmptyArgs == "{}"

----------------------------------------------------------------------------
\* Program constants

max_researcher_iterations == 6

max_concurrent_researchers == 3

\* Python's None, as the value of a client handle
None == 0

END == "__end__"

\* the default of result.get("compressed_research", ...)
ErrorSynthesizing == <<"Error synthesizing research report">>

----------------------------------------------------------------------------
\* Messages

NoId == 0

HumanMessage(content) ==
    [type |-> "human", content |-> content, tool_calls |-> <<>>,
     name |-> "", tool_call_id |-> NoId]

AIMessage(content, calls) ==
    [type |-> "ai", content |-> content, tool_calls |-> calls,
     name |-> "", tool_call_id |-> NoId]

ToolMessage(content, name, tool_call_id) ==
    [type |-> "tool", content |-> content, tool_calls |-> <<>>,
     name |-> name, tool_call_id |-> tool_call_id]

\* filter_messages(messages, include_types=types)
filter_messages(msgs, types) ==
    LET keep(m) == m.type \in types IN SelectSeq(msgs, keep)

\* [f(x) for x in s]
RECURSIVE MapContent(_)
MapContent(msgs) ==
    IF msgs = <<>> THEN <<>>
    ELSE <<Head(msgs).content>> \o MapContent(Tail(msgs))

\* "\n".join(parts)
RECURSIVE JoinNewline(_)
JoinNewline(parts) ==
    IF parts = <<>> THEN <<>>
    ELSE IF Len(parts) = 1 THEN Head(parts)
    ELSE Head(parts) \o <<"\n">> \o JoinNewline(Tail(parts))

get_notes_from_research(msgs) ==
    LET keep(m) == m.type = "tool" /\ m.name = "ConductResearch"
    IN MapContent(SelectSeq(msgs, keep))

get_notes_from_tool_calls(msgs) ==
    MapContent(filter_messages(msgs, {"tool"}))

\* think_tool: the acknowledgment echoing the reflection
think_tool(reflection) == <<"reflection recorded: ", reflection>>

----------------------------------------------------------------------------
\* Tool calls of the supervisor model

ToolCall(name, args, id) == [name |-> name, args |-> args, id |-> id]

\* the research topic of a delegation: the supervisor model words every
\* delegation of a run differently, so the topic is named after the call
TopicOf(id) == "topic" \o ToString(id)

\* what one tool call of the supervisor model can be, its id and topic aside
CallShapes ==
    [name : {"think_tool"}, args : Reflections \cup {EmptyArgs}]
    \cup [name : {"ConductResearch"}, args : {"topic", EmptyArgs}]
    \cup [name : {"ResearchComplete"}, args : {EmptyArgs}]

Min(a, b) == IF a < b THEN a ELSE b

\* the brief asks for a broad survey
Broad(msgs) ==
    /\ msgs # <<>>
    /\ msgs[1].content[1] \in Briefs(<<HumanMessage(<<BroadRequest>>)>>)

\* the brief asks a focused question
Focused(msgs) ==
    /\ msgs # <<>>
    /\ msgs[1].content[1] \in Briefs(<<HumanMessage(<<FocusedRequest>>)>>)

\* a response of the run so far carried several tool calls
Parallel(msgs) == \E i \in 1..Len(msgs) : Len(msgs[i].tool_calls) > 1

\* the tool call lists of one response: fresh ids in emission order; a
\* response wider than MaxCallsPerMsg answers a broad brief, opens the run
\* and only delegates; a response to a focused brief carries one call less
CallLists(first, msgs) ==
    LET used == first - 1
        single == IF Parallel(msgs) THEN MaxParallelCalls - used
                  ELSE MaxToolCalls - used
        width == IF Focused(msgs) THEN MaxCallsPerMsg - 1 ELSE MaxCallsPerMsg
        room == Min(width, MaxParallelCalls - used)
        lengths == {k \in 0..1 : k <= single} \cup {k \in 2..width : k <= room}
        wide == {k \in (MaxCallsPerMsg + 1)..MaxFanOut : used = 0 /\ Broad(msgs)}
        shapes == UNION {[1..k -> CallShapes] : k \in lengths}
                  \cup {[i \in 1..k |-> [name |-> "ConductResearch", args |-> "topic"]] :
                           k \in wide}
    IN {[i \in 1..Len(sh) |->
            ToolCall(sh[i].name,
                     IF sh[i].name = "ConductResearch" /\ sh[i].args # EmptyArgs
                     THEN TopicOf(first + i - 1) ELSE sh[i].args,
                     first + i - 1)] : sh \in shapes}

SelectName(calls, name) ==
    LET keep(c) == c.name = name IN SelectSeq(calls, keep)

Range(s) == {s[i] : i \in 1..Len(s)}

----------------------------------------------------------------------------
\* Scoping stage (research_agent_scope.py)

\* no search in progress
NoSearch ==
    /\ search_results = <<>>
    /\ unique_results = <<>>
    /\ search_step = "idle"

\* the module research_agent_mcp as imported, with no run of its graph
NoMcp ==
    /\ _client = None
    /\ constructed = 0
    /\ mcp_workers = <<>>

Workflow(request) ==
    /\ node = "clarify_with_user"
    /\ messages = <<HumanMessage(<<request>>)>>
    /\ response = <<>>
    /\ research_brief = <<>>
    /\ supervisor_messages = <<>>
    /\ notes = <<>>
    /\ raw_notes = <<>>
    /\ research_iterations = 0
    /\ final_report = <<>>
    /\ sup_node = "idle"
    /\ tool_messages = <<>>
    /\ workers = <<>>
    /\ completed = <<>>
    /\ next_id = 1
    /\ last_step = "none"
    /\ NoSearch
    /\ NoMcp

Init == Workflow(Request)

InitBroad == Workflow(BroadRequest)

InitFocused == Workflow(FocusedRequest)

clarify_goto_brief(need_clarification) == "write_research_brief"

\* the node clarify_with_user routes to
clarify_goto(need_clarification) ==
    IF need_clarification THEN END ELSE "write_research_brief"

clarify_with_user ==
    /\ node = "clarify_with_user"
    /\ \E need \in BOOLEAN :
        LET r == [need_clarification |-> need,
                  question |-> <<"question">>,
                  verification |-> <<"verification">>]
        IN /\ response' = <<r>>
           /\ node' = clarify_goto(r.need_clarification)
           /\ messages' = Append(messages,
                 AIMessage(IF r.need_clarification THEN r.question
                           ELSE r.verification, <<>>))
    /\ UNCHANGED <<research_brief, supervisor_messages, notes, raw_notes,
                   research_iterations, final_report, sup_node, tool_messages,
                   workers, completed, next_id, last_step>>
    /\ UNCHANGED <<search_vars, mcp_vars>>

workflow_edge_skip(from) ==
    IF from = "write_research_brief" THEN "final_report_generation"
    ELSE IF from = "supervisor_subgraph" THEN "final_report_generation"
    ELSE END

\* the edges of the full workflow graph
workflow_edge(from) ==
    IF from = "write_research_brief" THEN "supervisor_subgraph"
    ELSE IF from = "supervisor_subgraph" THEN "final_report_generation"
    ELSE END

\* the edge write_research_brief -> supervisor_subgraph enters the supervisor
\* graph at its START edge, with research_iterations at its default 0
write_research_brief ==
    /\ node = "write_research_brief"
    /\ \E b \in Briefs(messages) :
        /\ research_brief' = <<b>>
        /\ supervisor_messages' =
              supervisor_messages \o <<HumanMessage(<<b, ".">>)>>
    /\ node' = workflow_edge("write_research_brief")
    /\ sup_node' = IF node' = "supervisor_subgraph" THEN "supervisor" ELSE sup_node
    /\ UNCHANGED <<messages, response, notes, raw_notes, research_iterations,
                   final_report, tool_messages, workers, completed, next_id,
                   last_step>>
    /\ UNCHANGED <<search_vars, mcp_vars>>

final_report_generation ==
    /\ node = "final_report_generation"
    /\ LET findings == JoinNewline(notes)
           report == <<"report: ">> \o research_brief \o findings
       IN /\ final_report' = report
          /\ messages' = Append(messages,
                HumanMessage(<<"Here is the final report: ">> \o report))
    /\ node' = workflow_edge("final_report_generation")
    /\ UNCHANGED <<response, research_brief, supervisor_messages, notes,
                   raw_notes, research_iterations, sup_node, tool_messages,
                   workers, completed, next_id, last_step>>
    /\ UNCHANGED <<search_vars, mcp_vars>>

----------------------------------------------------------------------------
\* Researcher agent (research_agent.py), one run per delegation

researcher_input_shared(tool_call) ==
    [pc |-> "llm_call",
     researcher_messages |->
        supervisor_messages \o <<HumanMessage(<<tool_call.args>>)>>,
     research_topic |-> tool_call.args,
     tool_call_iterations |-> <<>>,
     compressed_research |-> <<>>,
     raw_notes |-> <<>>]

researcher_input_carried(tool_call) ==
    [pc |-> "llm_call",
     researcher_messages |-> <<HumanMessage(<<tool_call.args>>)>>,
     research_topic |-> tool_call.args,
     tool_call_iterations |-> <<>>,
     compressed_research |-> <<>>,
     raw_notes |-> raw_notes]

\* the input state researcher_agent.ainvoke is given for one ConductResearch
\* call; tool_call_iterations is declared by ResearcherState and set by no one
researcher_input(tool_call) ==
    [pc |-> "llm_call",
     researcher_messages |-> <<HumanMessage(<<tool_call.args>>)>>,
     research_topic |-> tool_call.args,
     tool_call_iterations |-> <<>>,
     compressed_research |-> <<>>,
     raw_notes |-> <<>>]

\* the topic a researcher's model reads in the first message of its transcript
SeedTopic(w) == w.researcher_messages[1].content[1]

\* tool-calling responses in a transcript so far
ToolTurns(msgs) ==
    Cardinality({i \in 1..Len(msgs) :
                    msgs[i].type = "ai" /\ msgs[i].tool_calls # <<>>})

\* the tool calls of one response of the researcher's model: a search and a
\* reflection about what its transcript is about; on an open-ended topic
\* also one of the two alone
ResearcherCalls(topic, id) ==
    {<<ToolCall("tavily_search", topic, id), ToolCall("think_tool", topic, id + 1)>>}
    \cup (IF topic = OpenTopic
          THEN {<<ToolCall("tavily_search", topic, id)>>,
                <<ToolCall("think_tool", topic, id)>>}
          ELSE {})

\* the responses of the researcher's model: no tool call, or tool calls
ResearcherResponses(w) ==
    LET topic == SeedTopic(w)
        id == Len(w.researcher_messages)
        most == IF topic = OpenTopic THEN MaxOpenIters ELSE MaxWorkerIters
        calls == IF ToolTurns(w.researcher_messages) < most
                 THEN {<<>>} \cup ResearcherCalls(topic, id)
                 ELSE {<<>>}
    IN {AIMessage(<<"answer on ", topic>>, c) : c \in calls}

should_continue_first(msgs) ==
    IF msgs[1].tool_calls # <<>> THEN "tool_node"
    ELSE "compress_research"

should_continue(msgs) ==
    IF msgs[Len(msgs)].tool_calls # <<>> THEN "tool_node"
    ELSE "compress_research"

\* tools_by_name[name].invoke(args)
invoke_tool(name, args) ==
    IF name = "think_tool" THEN think_tool(args)
    ELSE <<"search results: ", args>>

tool_outputs_first(calls) ==
    IF calls = <<>> THEN <<>>
    ELSE <<ToolMessage(invoke_tool(Head(calls).name, Head(calls).args),
                       Head(calls).name, Head(calls).id)>>

RECURSIVE tool_outputs(_)
tool_outputs(calls) ==
    IF calls = <<>> THEN <<>>
    ELSE <<ToolMessage(invoke_tool(Head(calls).name, Head(calls).args),
                       Head(calls).name, Head(calls).id)>>
         \o tool_outputs(Tail(calls))

Running(w) == w.pc \in {"llm_call", "tool_node", "compress_research"}

WorkerFrame ==
    UNCHANGED <<node, messages, response, research_brief, supervisor_messages,
                notes, raw_notes, research_iterations, final_report, sup_node,
                tool_messages, next_id, last_step, search_vars, mcp_vars>>

llm_call(i) ==
    /\ workers[i].pc = "llm_call"
    /\ \E r \in ResearcherResponses(workers[i]) :
        LET msgs == Append(workers[i].researcher_messages, r)
        IN workers' = [workers EXCEPT ![i].researcher_messages = msgs,
                                      ![i].pc = should_continue(msgs)]
    /\ UNCHANGED completed
    /\ WorkerFrame

tool_node(i) ==
    /\ workers[i].pc = "tool_node"
    /\ LET msgs == workers[i].researcher_messages
           tool_calls == msgs[Len(msgs)].tool_calls
       IN workers' = [workers EXCEPT
             ![i].researcher_messages = msgs \o tool_outputs(tool_calls),
             ![i].pc = "llm_call"]
    /\ UNCHANGED completed
    /\ WorkerFrame

raw_note_types_tool == {"tool"}

\* include_types=["tool", "ai"]
raw_note_types == {"tool", "ai"}

compress_research(i) ==
    /\ workers[i].pc = "compress_research"
    /\ LET msgs == workers[i].researcher_messages
           raw == MapContent(filter_messages(msgs, raw_note_types))
       IN workers' = [workers EXCEPT
             ![i].compressed_research = <<<<"synthesis of ", SeedTopic(workers[i])>>>>,
             ![i].raw_notes = workers[i].raw_notes \o <<JoinNewline(raw)>>,
             ![i].pc = END]
    /\ completed' = Append(completed, i)
    /\ WorkerFrame

\* an inference call or a search of the run raises: ainvoke raises and the
\* state of the run is lost
researcher_raises(i) ==
    /\ Running(workers[i])
    /\ workers' = [workers EXCEPT ![i].pc = "raised",
                                  ![i].researcher_messages = <<>>]
    /\ UNCHANGED completed
    /\ WorkerFrame

----------------------------------------------------------------------------
\* Supervisor (multi_agent_supervisor.py)

most_recent_message == supervisor_messages[Len(supervisor_messages)]

\* PLANNING: one inference call, one more round
supervisor ==
    /\ node = "supervisor_subgraph"
    /\ sup_node = "supervisor"
    /\ \E calls \in CallLists(next_id, supervisor_messages) :
        /\ supervisor_messages' =
              supervisor_messages \o <<AIMessage(<<"plan">>, calls)>>
        /\ next_id' = next_id + Len(calls)
    /\ research_iterations' = research_iterations + 1
    /\ sup_node' = "supervisor_tools"
    /\ completed' = <<>>
    /\ last_step' = "supervisor"
    /\ UNCHANGED <<node, messages, response, research_brief, notes, raw_notes,
                   final_report, tool_messages, workers>>
    /\ UNCHANGED <<search_vars, mcp_vars>>

\* PLANNING, the inference call raises: supervisor has no handler, so the
\* exception leaves the supervisor graph and the workflow that invoked it
supervisor_raises ==
    /\ node = "supervisor_subgraph"
    /\ sup_node = "supervisor"
    /\ sup_node' = "raised"
    /\ node' = "raised"
    /\ last_step' = "crash"
    /\ UNCHANGED <<messages, response, research_brief, supervisor_messages,
                   notes, raw_notes, research_iterations, final_report,
                   tool_messages, workers, completed, next_id>>
    /\ UNCHANGED <<search_vars, mcp_vars>>

exceeded_iterations_never(iterations) == FALSE

exceeded_iterations_late(iterations) == iterations > max_researcher_iterations

exceeded_iterations(iterations) == iterations >= max_researcher_iterations

no_tool_calls_ignored(m) == FALSE

no_tool_calls(m) == m.tool_calls = <<>>

research_complete_alone(m) ==
    /\ m.tool_calls # <<>>
    /\ \A i \in 1..Len(m.tool_calls) : m.tool_calls[i].name = "ResearchComplete"

research_complete(m) ==
    \E i \in 1..Len(m.tool_calls) : m.tool_calls[i].name = "ResearchComplete"

ShouldEnd ==
    \/ exceeded_iterations(research_iterations)
    \/ no_tool_calls(most_recent_message)
    \/ research_complete(most_recent_message)

think_tool_calls(m) == SelectName(m.tool_calls, "think_tool")

conduct_research_calls(m) == SelectName(m.tool_calls, "ConductResearch")

\* think_tool.invoke raises on arguments without a reflection;
\* tool_call["args"]["research_topic"] raises on arguments without a topic
RaisesBeforeAwait(m) ==
    \/ \E c \in Range(think_tool_calls(m)) : c.args = EmptyArgs
    \/ \E c \in Range(conduct_research_calls(m)) : c.args = EmptyArgs

think_tool_messages_last(calls) ==
    IF calls = <<>> THEN <<>>
    ELSE <<ToolMessage(think_tool(calls[Len(calls)].args), calls[Len(calls)].name,
                       calls[Len(calls)].id)>>

RECURSIVE think_tool_messages(_)
think_tool_messages(calls) ==
    IF calls = <<>> THEN <<>>
    ELSE <<ToolMessage(think_tool(Head(calls).args), Head(calls).name,
                       Head(calls).id)>>
         \o think_tool_messages(Tail(calls))

operator_replace(old, new) == new

\* the reducer of notes and raw_notes: Annotated[list[str], operator.add]
operator_add(old, new) == old \o new

state_get_brief_missing == <<"">>

\* state.get("research_brief", "")
state_get_research_brief ==
    IF research_brief = <<>> THEN <<"">> ELSE research_brief

fault_next_step_retry == "supervisor"

\* the node the fault path goes to
fault_next_step == END

\* return Command(goto=END, update={"notes": ..., "research_brief": ...}):
\* the supervisor graph ends and the workflow goes on to its next node
should_end_update_messages_kept(tool_msgs) == tool_msgs

\* the update of the should_end branch has no supervisor_messages key: the
\* tool_messages collected before a fault are dropped
should_end_update_messages(tool_msgs) == <<>>

ReturnEnd(next_step) ==
    /\ notes' = operator_add(notes, get_notes_from_tool_calls(supervisor_messages))
    /\ supervisor_messages' =
           supervisor_messages \o should_end_update_messages(tool_messages)
    /\ research_brief' = state_get_research_brief
    /\ sup_node' = next_step
    /\ node' = IF next_step = END THEN workflow_edge("supervisor_subgraph") ELSE node
    /\ UNCHANGED <<messages, response, raw_notes, research_iterations,
                   final_report, next_id>>

\* return Command(goto="supervisor", update={"supervisor_messages": ...,
\* "raw_notes": ...})
ReturnContinue(tool_msgs, all_raw_notes) ==
    /\ supervisor_messages' = supervisor_messages \o tool_msgs
    /\ raw_notes' = operator_add(raw_notes, all_raw_notes)
    /\ sup_node' = "supervisor"
    /\ UNCHANGED <<node, messages, response, research_brief, notes,
                   research_iterations, final_report, next_id>>

\* EXECUTING, a termination criterion holds
supervisor_tools_end ==
    /\ node = "supervisor_subgraph"
    /\ sup_node = "supervisor_tools"
    /\ ShouldEnd
    /\ ReturnEnd(END)
    /\ last_step' = "end"
    /\ UNCHANGED <<tool_messages, workers, completed>>
    /\ UNCHANGED <<search_vars, mcp_vars>>

\* EXECUTING, a tool call raises before any researcher is awaited
supervisor_tools_raise ==
    /\ node = "supervisor_subgraph"
    /\ sup_node = "supervisor_tools"
    /\ ~ShouldEnd
    /\ RaisesBeforeAwait(most_recent_message)
    /\ ReturnEnd(fault_next_step)
    /\ last_step' = "fault"
    /\ UNCHANGED <<tool_messages, workers, completed>>
    /\ UNCHANGED <<search_vars, mcp_vars>>

\* EXECUTING, reflection calls only
supervisor_tools_think ==
    /\ node = "supervisor_subgraph"
    /\ sup_node = "supervisor_tools"
    /\ ~ShouldEnd
    /\ ~RaisesBeforeAwait(most_recent_message)
    /\ conduct_research_calls(most_recent_message) = <<>>
    /\ ReturnContinue(think_tool_messages(think_tool_calls(most_recent_message)),
                      <<>>)
    /\ last_step' = "think"
    /\ UNCHANGED <<tool_messages, workers, completed>>
    /\ UNCHANGED <<search_vars, mcp_vars>>

coros_capped(calls) ==
    SubSeq(calls, 1, Min(Len(calls), max_concurrent_researchers))

\* coros: one researcher run per ConductResearch call
coros(calls) == calls

\* EXECUTING, up to the await of asyncio.gather
supervisor_tools_gather ==
    /\ node = "supervisor_subgraph"
    /\ sup_node = "supervisor_tools"
    /\ ~ShouldEnd
    /\ ~RaisesBeforeAwait(most_recent_message)
    /\ conduct_research_calls(most_recent_message) # <<>>
    /\ tool_messages' = think_tool_messages(think_tool_calls(most_recent_message))
    /\ LET calls == coros(conduct_research_calls(most_recent_message))
       IN workers' = [i \in 1..Len(calls) |-> researcher_input(calls[i])]
    /\ completed' = <<>>
    /\ sup_node' = "gather"
    /\ last_step' = "gather"
    /\ UNCHANGED <<node, messages, response, research_brief, supervisor_messages,
                   notes, raw_notes, research_iterations, final_report, next_id>>
    /\ UNCHANGED <<search_vars, mcp_vars>>

\* what a finished run returns (ResearcherOutputState)
researcher_output(w) ==
    [compressed_research |-> w.compressed_research,
     raw_notes |-> w.raw_notes,
     researcher_messages |-> w.researcher_messages]

gather_results_as_completed(ws, order) ==
    [i \in 1..Len(ws) |-> researcher_output(ws[order[i]])]

\* the list asyncio.gather(*coros) returns
gather_results(ws, order) ==
    [i \in 1..Len(ws) |-> researcher_output(ws[i])]

\* result.get("compressed_research", "Error synthesizing research report")
get_compressed_research(result) ==
    IF result.compressed_research = <<>> THEN ErrorSynthesizing
    ELSE result.compressed_research[1]

\* zip(tool_results, conduct_research_calls)
research_tool_messages(tool_results, calls) ==
    [i \in 1..Min(Len(tool_results), Len(calls)) |->
        ToolMessage(get_compressed_research(tool_results[i]),
                    calls[i].name, calls[i].id)]

tool_messages_extend_front(tool_msgs, research_msgs) == research_msgs \o tool_msgs

\* tool_messages.extend(research_tool_messages)
tool_messages_extend(tool_msgs, research_msgs) == tool_msgs \o research_msgs

all_raw_notes(tool_results) ==
    [i \in 1..Len(tool_results) |-> JoinNewline(tool_results[i].raw_notes)]

\* EXECUTING, asyncio.gather returns: every researcher has finished
gather_return ==
    /\ node = "supervisor_subgraph"
    /\ sup_node = "gather"
    /\ \A i \in 1..Len(workers) : workers[i].pc = END
    /\ LET tool_results == gather_results(workers, completed)
           calls == conduct_research_calls(most_recent_message)
       IN ReturnContinue(
              tool_messages_extend(tool_messages,
                                   research_tool_messages(tool_results, calls)),
              all_raw_notes(tool_results))
    /\ tool_messages' = <<>>
    /\ workers' = <<>>
    /\ last_step' = "return"
    /\ UNCHANGED completed
    /\ UNCHANGED <<search_vars, mcp_vars>>


gather_raises_never(ws) == FALSE

\* asyncio.gather raises as soon as one of the awaited runs has raised
gather_raises(ws) == \E i \in 1..Len(ws) : ws[i].pc = "raised"

\* EXECUTING, asyncio.gather raises: a researcher has raised; the others are
\* not cancelled and run on
gather_raise ==
    /\ node = "supervisor_subgraph"
    /\ sup_node = "gather"
    /\ gather_raises(workers)
    /\ ReturnEnd(fault_next_step)
    /\ tool_messages' = <<>>
    /\ last_step' = "fault"
    /\ UNCHANGED <<workers, completed>>
    /\ UNCHANGED <<search_vars, mcp_vars>>

----------------------------------------------------------------------------

Next ==
    \/ clarify_with_user
    \/ write_research_brief
    \/ supervisor
    \/ supervisor_raises
    \/ supervisor_tools_end
    \/ supervisor_tools_raise
    \/ supervisor_tools_think
    \/ supervisor_tools_gather
    \/ \E i \in 1..Len(workers) : llm_call(i)
    \/ \E i \in 1..Len(workers) : tool_node(i)
    \/ \E i \in 1..Len(workers) : compress_research(i)
    \/ \E i \in 1..Len(workers) : researcher_raises(i)
    \/ gather_return
    \/ gather_raise
    \/ final_report_generation

Spec == Init /\ [][Next]_vars

\* the workflow on a request for a broad survey
BroadSpec == InitBroad /\ [][Next]_vars

\* researcher_agent invoked on its own, on an open-ended topic
InitResearcher ==
    /\ node = "researcher_agent"
    /\ messages = <<>>
    /\ response = <<>>
    /\ research_brief = <<>>
    /\ supervisor_messages = <<>>
    /\ notes = <<>>
    /\ raw_notes = <<>>
    /\ research_iterations = 0
    /\ final_report = <<>>
    /\ sup_node = "idle"
    /\ tool_messages = <<>>
    /\ workers = <<researcher_input(ToolCall("ConductResearch", OpenTopic, 1))>>
    /\ completed = <<>>
    /\ next_id = 1
    /\ last_step = "none"
    /\ NoSearch
    /\ NoMcp

NextResearcher ==
    \/ \E i \in 1..Len(workers) : llm_call(i)
    \/ \E i \in 1..Len(workers) : tool_node(i)
    \/ \E i \in 1..Len(workers) : compress_research(i)
    \/ \E i \in 1..Len(workers) : researcher_raises(i)

ResearcherSpec == InitResearcher /\ [][NextResearcher]_vars

\* a step of the supervisor graph in which the inference call, if any, returns
SupervisorStep ==
    \/ supervisor
    \/ supervisor_tools_end
    \/ supervisor_tools_raise
    \/ supervisor_tools_think
    \/ supervisor_tools_gather
    \/ gather_return
    \/ gather_raise

\* a step of the i-th researcher run of the round
ResearcherStep(i) ==
    /\ i \in 1..Len(workers)
    /\ llm_call(i) \/ tool_node(i) \/ compress_research(i)

NextReturns ==
    \/ clarify_with_user
    \/ write_research_brief
    \/ SupervisorStep
    \/ \E i \in 1..Len(workers) : ResearcherStep(i)
    \/ \E i \in 1..Len(workers) : researcher_raises(i)
    \/ final_report_generation

\* the workflow when every inference call of the supervisor returns: the
\* event loop resumes the supervisor graph and every researcher run whenever
\* they can take a step
FairSpec ==
    /\ InitFocused
    /\ [][NextReturns]_vars
    /\ WF_vars(SupervisorStep)
    /\ \A i \in 1..MaxCallsPerMsg : WF_vars(ResearcherStep(i))

----------------------------------------------------------------------------
\* Vocabulary of the properties

DONE == sup_node = END

EXECUTING == sup_node = "supervisor_tools"

LastAssistant == supervisor_messages[Len(supervisor_messages)]

CallNames(m) == {m.tool_calls[i].name : i \in 1..Len(m.tool_calls)}

\* positions of the Tool Results of a transcript that answer call id
ResultsFor(msgs, id) ==
    {k \in 1..Len(msgs) : msgs[k].type = "tool" /\ msgs[k].tool_call_id = id}

\* the messages a step appends to the coordination transcript
Appended ==
    SubSeq(supervisor_messages', Len(supervisor_messages) + 1,
           Len(supervisor_messages'))

DelegationCalls(m) ==
    LET keep(c) == c.name = "ConductResearch" IN SelectSeq(m.tool_calls, keep)

DelegationResults(msgs) ==
    LET keep(m) == m.type = "tool" /\ m.name = "ConductResearch"
    IN SelectSeq(msgs, keep)

----------------------------------------------------------------------------
\* C1. Termination bound: whenever the Supervisor is DONE, the round counter
\* is at most the configured maximum of 6 rounds.
TerminationBound == DONE => research_iterations <= max_researcher_iterations

\* a run that used its whole budget
TerminationBoundWitness == DONE /\ research_iterations = max_researcher_iterations

\* C2. Correlation integrity: at DONE every Tool Call id of every assistant
\* message of the coordination transcript, the last one included, has exactly
\* one Tool Result with the same id later in the transcript.
CorrelationIntegrity ==
    DONE =>
        \A p \in 1..Len(supervisor_messages) :
            \A i \in 1..Len(supervisor_messages[p].tool_calls) :
                LET id == supervisor_messages[p].tool_calls[i].id
                    answers == ResultsFor(supervisor_messages, id)
                IN /\ Cardinality(answers) = 1
                   /\ \A k \in answers : k > p

\* C3. Deterministic pairing: when asyncio.gather returns, the delegation
\* Tool Results appended to the coordination transcript are in call order,
\* and the i-th carries the id of the i-th delegation call and the synthesis
\* of the Worker started for that call, whatever order the Workers finished in.
DeterministicPairing ==
    [][(sup_node = "gather" /\ sup_node' = "supervisor") =>
        LET calls == DelegationCalls(LastAssistant)
            results == DelegationResults(Appended)
        IN /\ Len(results) = Len(calls)
           /\ Len(workers) = Len(calls)
           /\ \A i \in 1..Len(calls) :
                /\ results[i].tool_call_id = calls[i].id
                /\ workers[i].research_topic = calls[i].args
                /\ <<results[i].content>> = workers[i].compressed_research]_vars

\* three delegations [A, B, C] that finished in the order C, B, A and were
\* answered in the order A, B, C
DeterministicPairingWitness ==
    /\ last_step = "return"
    /\ completed = <<3, 2, 1>>
    /\ Len(supervisor_messages) > 3
    /\ LET n == Len(supervisor_messages)
           calls == DelegationCalls(supervisor_messages[n - 3])
       IN /\ Len(calls) = 3
          /\ \A i \in 1..3 :
                supervisor_messages[n - 3 + i].tool_call_id = calls[i].id

\* C4. Isolation: a Worker's private transcript holds its own topic message
\* followed by messages about its own topic only; it shares no message with a
\* sibling Worker's transcript or with the coordination transcript.
TopicsOf(m) ==
    {m.content[k] : k \in 1..Len(m.content)}
    \cup {m.tool_calls[k].args : k \in 1..Len(m.tool_calls)}

OtherTopics(i) ==
    {workers[j].research_topic : j \in 1..Len(workers) \ {i}}

Isolation ==
    \A i \in 1..Len(workers) :
        LET msgs == workers[i].researcher_messages
        IN /\ msgs # <<>> =>
                msgs[1] = HumanMessage(<<workers[i].research_topic>>)
           /\ \A k \in 2..Len(msgs) :
                /\ msgs[k].type \in {"ai", "tool"}
                /\ workers[i].research_topic \in TopicsOf(msgs[k])
           /\ \A k \in 1..Len(msgs) :
                /\ TopicsOf(msgs[k]) \cap OtherTopics(i) = {}
                /\ \A q \in 1..Len(supervisor_messages) :
                      msgs[k] # supervisor_messages[q]
                /\ \A j \in 1..Len(workers) \ {i} :
                      \A q \in 1..Len(workers[j].researcher_messages) :
                          msgs[k] # workers[j].researcher_messages[q]

\* two Workers of one round, both past their first tool results
IsolationWitness ==
    \E i, j \in 1..Len(workers) :
        /\ i # j
        /\ sup_node = "gather"
        /\ workers[i].research_topic # workers[j].research_topic
        /\ Len(workers[i].researcher_messages) > 3
        /\ Len(workers[j].researcher_messages) > 3

\* C5. No-tool-calls terminates: an EXECUTING step on an assistant message
\* without Tool Calls goes to DONE, at any value of the round counter, starts
\* no Worker, runs no reflection and appends nothing to the transcript.
NoToolCallsTerminates ==
    [][(EXECUTING /\ LastAssistant.tool_calls = <<>>) =>
        /\ sup_node' = END
        /\ supervisor_messages' = supervisor_messages
        /\ raw_notes' = raw_notes
        /\ tool_messages' = <<>>
        /\ workers' = <<>>]_vars

\* a run that ended in its third round on a message without Tool Calls
NoToolCallsTerminatesWitness ==
    /\ DONE
    /\ last_step = "end"
    /\ LastAssistant.type = "ai"
    /\ LastAssistant.tool_calls = <<>>
    /\ research_iterations = 3

\* C6. Termination check precedence: an EXECUTING step on a message with a
\* research-complete call, or at a round counter that has reached the
\* maximum, goes to DONE whatever other calls the message carries; it starts
\* no Worker and produces no Tool Result.
TerminationPrecedence ==
    [][(/\ EXECUTING
        /\ \/ "ResearchComplete" \in CallNames(LastAssistant)
           \/ research_iterations >= max_researcher_iterations) =>
        /\ sup_node' = END
        /\ workers' = <<>>
        /\ tool_messages' = <<>>
        /\ supervisor_messages' = supervisor_messages
        /\ raw_notes' = raw_notes]_vars

\* a run ended by a research-complete call that came with a delegation and a
\* reflection call, before the budget was used up
TerminationPrecedenceWitness ==
    /\ DONE
    /\ last_step = "end"
    /\ research_iterations < max_researcher_iterations
    /\ CallNames(LastAssistant) =
          {"ResearchComplete", "ConductResearch", "think_tool"}
    /\ workers = <<>>

\* C7. Scoping binary routing: after a decision that asks for clarification
\* the workflow has ended on the question and no brief is ever written; after
\* a decision to proceed the verification is emitted and the brief-generation
\* step is the next to run, so the workflow is never past it without a brief.
BriefWritten == research_brief # <<>> /\ supervisor_messages # <<>>

ScopingRouting ==
    response # <<>> =>
        IF response[1].need_clarification
        THEN /\ node = END
             /\ ~BriefWritten
             /\ sup_node = "idle"
             /\ messages[Len(messages)] = AIMessage(response[1].question, <<>>)
        ELSE /\ messages[2] = AIMessage(response[1].verification, <<>>)
             /\ node # "clarify_with_user"
             /\ node = "write_research_brief" \/ BriefWritten

\* the workflow after a decision that asked for clarification
ScopingRoutingWitness ==
    /\ response # <<>>
    /\ response[1].need_clarification
    /\ node = END

\* C8. Final output on DONE: the notes are the contents of every Tool Result
\* of the coordination transcript in transcript order, reflection
\* acknowledgments included, and the research brief is the one the Supervisor
\* was started with.
RECURSIVE ToolResultContents(_)
ToolResultContents(msgs) ==
    IF msgs = <<>> THEN <<>>
    ELSE (IF Head(msgs).type = "tool" THEN <<Head(msgs).content>> ELSE <<>>)
         \o ToolResultContents(Tail(msgs))

FinalOutput ==
    DONE =>
        /\ notes = ToolResultContents(supervisor_messages)
        /\ supervisor_messages[1].content = research_brief \o <<".">>
        /\ research_brief # <<>>

\* a finished run whose transcript holds a reflection acknowledgment and a
\* synthesis
FinalOutputWitness ==
    /\ DONE
    /\ \E k \in 1..Len(supervisor_messages) :
          supervisor_messages[k].type = "tool"
          /\ supervisor_messages[k].name = "think_tool"
    /\ DelegationResults(supervisor_messages) # <<>>
    /\ Len(notes) >= 2

\* C9. Notes are one per delegation: at DONE the notes hold exactly one
\* string for each Worker that returned, and nothing else.
ReturnedWorkers ==
    Len(DelegationResults(supervisor_messages))
    + Cardinality({i \in 1..Len(workers) : workers[i].pc = END})

NotesOnePerDelegation == DONE => Len(notes) = ReturnedWorkers

\* C10. Fault path: an EXECUTING step in which a reflection call or a Worker
\* raises ends in DONE; the Supervisor then never plans again, starts no
\* Worker again, and a Worker that raised stays failed.
Terminating ==
    \/ research_iterations >= max_researcher_iterations
    \/ LastAssistant.tool_calls = <<>>
    \/ "ResearchComplete" \in CallNames(LastAssistant)

ReflectionRaises ==
    \E i \in 1..Len(LastAssistant.tool_calls) :
        /\ LastAssistant.tool_calls[i].name = "think_tool"
        /\ LastAssistant.tool_calls[i].args = EmptyArgs

WorkerRaised == \E i \in 1..Len(workers) : workers[i].pc = "raised"

FaultPath ==
    [][/\ (EXECUTING /\ ~Terminating /\ ReflectionRaises) => sup_node' = END
       /\ (sup_node = "gather" /\ WorkerRaised) => sup_node' \in {"gather", END}
       /\ (sup_node = "gather" /\ sup_node' = END) => WorkerRaised
       /\ DONE => /\ sup_node' = END
                  /\ research_iterations' = research_iterations
                  /\ supervisor_messages' = supervisor_messages
                  /\ Len(workers') = Len(workers)
       /\ \A i \in 1..Len(workers) :
             (workers[i].pc = "raised" /\ i <= Len(workers')) =>
                 workers'[i].pc = "raised"]_vars

\* a run ended by one Worker's fault while a sibling was still running
FaultPathWitness ==
    /\ DONE
    /\ last_step = "fault"
    /\ research_iterations < max_researcher_iterations
    /\ WorkerRaised
    /\ \E j \in 1..Len(workers) : Running(workers[j])

\* C11. No hard crash in the Supervisor: no error leaves the Supervisor state
\* machine; a run that has stopped, also on a failure of the inference call
\* in PLANNING, is DONE with the brief and the notes accumulated so far.
SupervisorStopped ==
    /\ BriefWritten
    /\ sup_node \notin {"supervisor", "supervisor_tools", "gather"}

NoHardCrash ==
    /\ sup_node # "raised"
    /\ node # "raised"
    /\ SupervisorStopped =>
          /\ DONE
          /\ notes = ToolResultContents(supervisor_messages)
          /\ research_brief # <<>>

\* C12. Join-all: while a Worker dispatched in the current EXECUTING step is
\* still running, the Supervisor stays in that step and its transcript, notes
\* and raw notes do not change.
StillRunning(w) == w.pc \notin {END, "raised"}

JoinAll ==
    [][(sup_node = "gather" /\ \E i \in 1..Len(workers) : StillRunning(workers[i])) =>
        /\ sup_node' = "gather"
        /\ supervisor_messages' = supervisor_messages
        /\ notes' = notes
        /\ raw_notes' = raw_notes]_vars

\* C13. The concurrency ceiling is advisory: the Workers started in one
\* EXECUTING step are as many as the delegation calls of the assistant
\* message, one per call and all started together, also when the message
\* carries more delegation calls than max_concurrent_researchers.
AdvisoryCeiling ==
    [][(EXECUTING /\ sup_node' = "gather") =>
        LET calls == DelegationCalls(LastAssistant)
        IN /\ Len(workers') = Len(calls)
           /\ \A i \in 1..Len(calls) :
                /\ workers'[i].research_topic = calls[i].args
                /\ workers'[i].pc = "llm_call"]_vars

\* more Workers than the ceiling, all of them in flight at once
AdvisoryCeilingWitness ==
    /\ sup_node = "gather"
    /\ Len(DelegationCalls(LastAssistant)) > max_concurrent_researchers
    /\ Len(workers) > max_concurrent_researchers
    /\ \A i \in 1..Len(workers) : workers[i].pc = "tool_node"

\* C14. Monotone coordination state: in every step the round counter does
\* not decrease, a PLANNING step adds exactly 1 to it and an EXECUTING step
\* leaves it alone, and the notes and the raw notes before the step are a
\* prefix of the notes and the raw notes after it.
IsPrefix(s, t) == Len(s) <= Len(t) /\ SubSeq(t, 1, Len(s)) = s

MonotoneState ==
    [][/\ research_iterations' >= research_iterations
       /\ (sup_node = "supervisor" /\ sup_node' = "supervisor_tools") =>
             research_iterations' = research_iterations + 1
       /\ sup_node \in {"supervisor_tools", "gather"} =>
             research_iterations' = research_iterations
       /\ IsPrefix(notes, notes')
       /\ IsPrefix(raw_notes, raw_notes')]_vars

\* a finished run of three rounds, two of which brought raw notes
MonotoneStateWitness ==
    /\ DONE
    /\ research_iterations = 3
    /\ Len(raw_notes) >= 2
    /\ Len(notes) >= 2
    /\ raw_notes[1] # raw_notes[2]

\* C15. The research brief is immutable: once the Scoping Stage has produced
\* it, no step of the workflow changes it: no PLANNING or EXECUTING step, not
\* the transition to DONE, not the fault path, no Worker step, and not the
\* final report.
BriefImmutable ==
    [][research_brief # <<>> => research_brief' = research_brief]_vars

\* a workflow that went through the fault path and wrote its report on the
\* brief the Scoping Stage produced
BriefImmutableWitness ==
    /\ node = END
    /\ final_report # <<>>
    /\ last_step = "fault"
    /\ \E i \in 1..Len(workers) : workers[i].pc = "raised"
    /\ research_brief # <<>>
    /\ supervisor_messages[1].content = research_brief \o <<".">>

\* C17. Supervisor liveness: when every inference call returns and every
\* Worker terminates, a Supervisor run that has started eventually reaches
\* DONE; it never takes more than max_researcher_iterations PLANNING steps,
\* and a run ended by the iteration budget has output the notes of its
\* transcript.
SupervisorLiveness ==
    /\ (sup_node = "supervisor") ~> DONE
    /\ [](research_iterations <= max_researcher_iterations)
    /\ [](DONE => notes = ToolResultContents(supervisor_messages))

\* a run ended by the budget on a message that still asked for research
SupervisorLivenessWitness ==
    /\ DONE
    /\ research_iterations = max_researcher_iterations
    /\ CallNames(LastAssistant) = {"ConductResearch"}
    /\ DelegationResults(supervisor_messages) # <<>>
    /\ Len(notes) = Len(DelegationResults(supervisor_messages))

\* C18. Worker iteration bound: a Worker performs at most a fixed number of
\* THINKING/ACTING cycles, the configured maximum of tool call iterations of
\* a researcher, and then goes to SYNTHESIZING even when its model still
\* asks for tools.
Cycles(w) ==
    Cardinality({k \in 1..Len(w.researcher_messages) :
                    /\ w.researcher_messages[k].type = "ai"
                    /\ w.researcher_messages[k].tool_calls # <<>>})

WorkerIterationBound ==
    \A i \in 1..Len(workers) : Cycles(workers[i]) <= max_researcher_iterations

\* C19. Worker routing: a THINKING step appends one assistant response and
\* goes to ACTING if and only if the response carries a Tool Call, otherwise
\* to SYNTHESIZING; a Worker in SYNTHESIZING never goes back to THINKING or
\* ACTING, and a Worker that has produced its output takes no further step.
WorkerRouting ==
    [][\A i \in 1..Len(workers) :
        i <= Len(workers') =>
            LET w == workers[i]
                v == workers'[i]
            IN /\ (w.pc = "llm_call" /\ v # w /\ v.pc # "raised") =>
                    LET r == v.researcher_messages[Len(v.researcher_messages)]
                    IN /\ Len(v.researcher_messages) = Len(w.researcher_messages) + 1
                       /\ r.type = "ai"
                       /\ v.pc = (IF r.tool_calls # <<>> THEN "tool_node"
                                  ELSE "compress_research")
               /\ w.pc = "tool_node" => v.pc \in {"tool_node", "llm_call", "raised"}
               /\ w.pc = "compress_research" =>
                    v.pc \in {"compress_research", END, "raised"}
               /\ w.pc = END => v = w]_vars

\* a Worker that went through ACTING twice, once on a single Tool Call, and
\* then produced its output
WorkerRoutingWitness ==
    \E i \in 1..Len(workers) :
        /\ workers[i].pc = END
        /\ Cycles(workers[i]) = 2
        /\ \E k \in 1..Len(workers[i].researcher_messages) :
              Len(workers[i].researcher_messages[k].tool_calls) = 1
        /\ workers[i].researcher_messages[Len(workers[i].researcher_messages)].tool_calls = <<>>

\* C20. Worker ACTING step: the step extends the private transcript by
\* exactly one Tool Result per Tool Call of the assistant response, in call
\* order, each with the name and the id of its call and the result of that
\* call; so whenever a Worker is in THINKING every Tool Call of its transcript
\* has exactly one Tool Result with its id, later in the transcript.
Answered(msgs) ==
    \A p \in 1..Len(msgs) :
        \A c \in 1..Len(msgs[p].tool_calls) :
            LET answers == ResultsFor(msgs, msgs[p].tool_calls[c].id)
            IN /\ Cardinality(answers) = 1
               /\ \A k \in answers : k > p

OneResultPerCall ==
    [][(sup_node \in {"supervisor_tools", "gather"} /\ sup_node' = "supervisor") =>
        LET calls == LastAssistant.tool_calls
        IN /\ LastAssistant.type = "ai"
           /\ Len(Appended) = Len(calls)
           /\ \A k \in 1..Len(Appended) : Appended[k].type = "tool"
           /\ \A c \in 1..Len(calls) :
                Cardinality({k \in 1..Len(Appended) :
                                /\ Appended[k].tool_call_id = calls[c].id
                                /\ Appended[k].name = calls[c].name}) = 1]_vars

\* a round on two reflection calls and a delegation call, answered by three
\* Tool Results
OneResultPerCallWitness ==
    /\ sup_node = "supervisor"
    /\ last_step = "return"
    /\ Len(supervisor_messages) > 4
    /\ LET n == Len(supervisor_messages)
           m == supervisor_messages[n - 3]
       IN /\ Len(m.tool_calls) = 3
          /\ Len(SelectName(m.tool_calls, "think_tool")) = 2
          /\ \A k \in 1..3 : supervisor_messages[n - 3 + k].type = "tool"

\* C22. Fresh Worker per delegation: in every round, the Worker started for
\* a delegation call begins in THINKING with a private transcript of exactly
\* one message, the call's topic text, and with no synthesis and no raw
\* notes: nothing of a Worker of an earlier round or of a sibling is in it.
FreshWorker ==
    [][(EXECUTING /\ sup_node' = "gather") =>
        LET calls == DelegationCalls(LastAssistant)
        IN \A i \in 1..Len(workers') :
            /\ i <= Len(calls)
            /\ workers'[i].pc = "llm_call"
            /\ Len(workers'[i].researcher_messages) = 1
            /\ workers'[i].researcher_messages[1].type = "human"
            /\ workers'[i].researcher_messages[1].content = <<calls[i].args>>
            /\ workers'[i].researcher_messages[1].tool_calls = <<>>
            /\ workers'[i].compressed_research = <<>>
            /\ workers'[i].raw_notes = <<>>]_vars

\* two Workers just started in the second round, after a Worker of the first
\* round returned its synthesis and raw notes
FreshWorkerWitness ==
    /\ sup_node = "gather"
    /\ research_iterations = 2
    /\ raw_notes # <<>>
    /\ DelegationResults(supervisor_messages) # <<>>
    /\ Len(workers) = 2
    /\ \A i \in 1..Len(workers) : Len(workers[i].researcher_messages) = 1

\* C23. Worker output: a Worker that has completed holds exactly one
\* synthesis and exactly one raw-notes blob, and the blob is the contents of
\* the Tool Results and assistant messages of its private transcript, in
\* transcript order, joined by newlines; the seed topic message is not in it.
RECURSIVE Blob(_, _)
Blob(msgs, started) ==
    IF msgs = <<>> THEN <<>>
    ELSE IF Head(msgs).type \in {"tool", "ai"}
         THEN (IF started THEN <<"\n">> ELSE <<>>) \o Head(msgs).content
              \o Blob(Tail(msgs), TRUE)
         ELSE Blob(Tail(msgs), started)

ReportStep == final_report' # final_report \/ node = "final_report_generation"

\* C24. Workflow ordering: the Supervisor has started only if the research
\* brief has been written; the Report Synthesizer runs only when the
\* Supervisor is DONE, writes the report once and ends the workflow; after a
\* decision that asks for clarification the Supervisor never starts and no
\* report is ever written.
WorkflowOrdering ==
    /\ [](sup_node # "idle" =>
            research_brief # <<>> /\ supervisor_messages # <<>>)
    /\ []((response # <<>> /\ response[1].need_clarification) =>
            /\ sup_node = "idle"
            /\ research_iterations = 0
            /\ workers = <<>>
            /\ final_report = <<>>
            /\ node # "final_report_generation")
    /\ [](final_report # <<>> => node = END)
    /\ [][/\ ReportStep => sup_node = END
          /\ (ReportStep /\ node' # node) => final_report = <<>> /\ node' = END
          /\ node = END => node' = END /\ final_report' = final_report]_vars

\* a workflow that ran two rounds of the Supervisor and then wrote its report
WorkflowOrderingWitness ==
    /\ node = END
    /\ final_report # <<>>
    /\ sup_node = END
    /\ research_iterations = 2
    /\ last_step = "end"
    /\ notes # <<>>

----------------------------------------------------------------------------
\* Search adapter (utils.py): de-duplication of the search responses

\* most results in one search response
MaxResults == 2

\* most search responses handed to deduplicate_search_results
MaxResponses == 2

\* the documents a search can return: two of them share a URL
Documents ==
    {[url |-> "u1", title |-> "a"],
     [url |-> "u1", title |-> "b"],
     [url |-> "u2", title |-> "a"]}

SeqsUpTo(S, n) == UNION {[1..k -> S] : k \in 0..n}

\* the lists of search responses tavily_search_multiple can return
SearchResponses ==
    SeqsUpTo({[results |-> r] : r \in SeqsUpTo(Documents, MaxResults)},
             MaxResponses)

\* a dict is the sequence of its items in insertion order
dict_keys(d) == {d[i].key : i \in 1..Len(d)}

dict_values(d) == [i \in 1..Len(d) |-> d[i].value]

\* d[k] = v: a new key is appended, the value of a key the dict holds is
\* replaced where it stands
dict_setitem(d, k, v) ==
    IF k \in dict_keys(d)
    THEN [i \in 1..Len(d) |-> IF d[i].key = k THEN [key |-> k, value |-> v]
                              ELSE d[i]]
    ELSE Append(d, [key |-> k, value |-> v])

url_not_in_always(url, unique) == TRUE

\* url not in unique_results
url_not_in(url, unique) == url \notin dict_keys(unique)

\* the inner loop: for result in response['results']
RECURSIVE dedup_results(_, _)
dedup_results(results, unique) ==
    IF results = <<>> THEN unique
    ELSE LET result == Head(results)
             url == result.url
         IN dedup_results(Tail(results),
                          IF url_not_in(url, unique)
                          THEN dict_setitem(unique, url, result)
                          ELSE unique)

\* the outer loop: for response in search_results
RECURSIVE dedup_responses(_, _)
dedup_responses(responses, unique) ==
    IF responses = <<>> THEN unique
    ELSE dedup_responses(Tail(responses),
                         dedup_results(Head(responses).results, unique))

deduplicate_search_results(responses) == dedup_responses(responses, <<>>)

\* no run of the workflow or of a researcher
NoWorkflow ==
    /\ node = "idle"
    /\ messages = <<>>
    /\ response = <<>>
    /\ research_brief = <<>>
    /\ supervisor_messages = <<>>
    /\ notes = <<>>
    /\ raw_notes = <<>>
    /\ research_iterations = 0
    /\ final_report = <<>>
    /\ sup_node = "idle"
    /\ tool_messages = <<>>
    /\ workers = <<>>
    /\ completed = <<>>
    /\ next_id = 1
    /\ last_step = "none"

\* the search responses are in, nothing is de-duplicated yet
InitSearch ==
    /\ NoWorkflow
    /\ NoMcp
    /\ search_results \in SearchResponses
    /\ unique_results = <<>>
    /\ search_step = "results"

\* unique_results = deduplicate_search_results(search_results)
deduplicate ==
    /\ search_step = "results"
    /\ unique_results' = deduplicate_search_results(search_results)
    /\ search_step' = "unique"
    /\ UNCHANGED <<search_results, workflow_vars, mcp_vars>>

\* the function applied to its own result, as one response holding the
\* documents of the dict
deduplicate_again ==
    /\ search_step = "unique"
    /\ unique_results' =
           deduplicate_search_results(
               <<[results |-> dict_values(unique_results)]>>)
    /\ search_step' = "again"
    /\ UNCHANGED <<search_results, workflow_vars, mcp_vars>>

NextSearch ==
    \/ deduplicate
    \/ deduplicate_again

SearchSpec == InitSearch /\ [][NextSearch]_vars

\* the documents of the responses, in response order and then result order
RECURSIVE Flatten(_)
Flatten(responses) ==
    IF responses = <<>> THEN <<>>
    ELSE Head(responses).results \o Flatten(Tail(responses))

\* the first document of a list with the given URL
FirstWith(docs, url) ==
    docs[CHOOSE i \in 1..Len(docs) :
            /\ docs[i].url = url
            /\ \A j \in 1..(i - 1) : docs[j].url # url]

\* C25. Search de-duplication: the de-duplicated result holds each URL of the
\* responses exactly once, mapped to the first document with that URL in
\* response order and then result order, and de-duplicating the result again
\* changes nothing.
SearchDeduplication ==
    /\ [](search_step \in {"unique", "again"} =>
            LET docs == Flatten(search_results)
            IN /\ {unique_results[i].key : i \in 1..Len(unique_results)}
                      = {docs[i].url : i \in 1..Len(docs)}
               /\ \A i, j \in 1..Len(unique_results) :
                      unique_results[i].key = unique_results[j].key => i = j
               /\ \A i \in 1..Len(unique_results) :
                      unique_results[i].value
                          = FirstWith(docs, unique_results[i].key))
    /\ [][search_step = "unique" => unique_results' = unique_results]_vars

\* a later response repeats the URL of an earlier one with another document,
\* and the result has been de-duplicated a second time
SearchDeduplicationWitness ==
    /\ search_step = "again"
    /\ Len(search_results) = 2
    /\ search_results[1].results
           = <<[url |-> "u2", title |-> "a"], [url |-> "u1", title |-> "b"]>>
    /\ search_results[2].results
           = <<[url |-> "u1", title |-> "a"], [url |-> "u2", title |-> "a"]>>
    /\ Len(unique_results) = 2
    /\ unique_results[2].value.title = "b"

----------------------------------------------------------------------------
\* an EXECUTING step that runs reflections or starts Workers
RunsCalls ==
    /\ EXECUTING
    /\ \/ sup_node' = "gather"
       \/ supervisor_messages' # supervisor_messages
       \/ tool_messages' # tool_messages
       \/ last_step' = "fault"

\* C26. The last budgeted round is never executed: the EXECUTING step that
\* follows the PLANNING step which brought the round counter to
\* max_researcher_iterations goes to DONE without running a reflection or
\* starting a Worker, so reflections and Workers run only in rounds 1 to
\* max_researcher_iterations - 1, and at DONE no Tool Call of that last
\* assistant message has a Tool Result or a note.
LastRoundNotExecuted ==
    /\ [][/\ (EXECUTING /\ research_iterations >= max_researcher_iterations) =>
                /\ sup_node' = END
                /\ supervisor_messages' = supervisor_messages
                /\ tool_messages' = tool_messages
                /\ workers' = workers
                /\ raw_notes' = raw_notes
                /\ Len(notes') = Len(notes)
                      + Cardinality({k \in 1..Len(supervisor_messages) :
                                        supervisor_messages[k].type = "tool"})
          /\ RunsCalls => research_iterations <= max_researcher_iterations - 1
          /\ sup_node = "gather" =>
                research_iterations <= max_researcher_iterations - 1]_vars
    /\ []((DONE /\ research_iterations >= max_researcher_iterations) =>
            /\ LastAssistant.type = "ai"
            /\ \A c \in 1..Len(LastAssistant.tool_calls) :
                  ResultsFor(supervisor_messages,
                             LastAssistant.tool_calls[c].id) = {})

\* a run ended by the budget whose last assistant message asked for a
\* delegation, after five rounds that were executed
LastRoundNotExecutedWitness ==
    /\ DONE
    /\ research_iterations = max_researcher_iterations
    /\ LastAssistant.type = "ai"
    /\ "ConductResearch" \in CallNames(LastAssistant)
    /\ Cardinality({k \in 1..Len(supervisor_messages) :
                       supervisor_messages[k].type = "tool"})
           = max_researcher_iterations - 1
    /\ Len(notes) = max_researcher_iterations - 1

----------------------------------------------------------------------------
\* the ids of a list of Tool Calls or of Tool Results
CallIds(calls) == [i \in 1..Len(calls) |-> calls[i].id]

ResultIds(msgs) == [i \in 1..Len(msgs) |-> msgs[i].tool_call_id]

ReflectionCalls(m) ==
    LET keep(c) == c.name = "think_tool" IN SelectSeq(m.tool_calls, keep)

\* some delegation call stands before a reflection call
DelegationBeforeReflection(m) ==
    \E i, j \in 1..Len(m.tool_calls) :
        /\ i < j
        /\ m.tool_calls[i].name = "ConductResearch"
        /\ m.tool_calls[j].name = "think_tool"

\* C27. Reflection results come first: an EXECUTING step that goes back to
\* PLANNING appends the results of the reflection calls in their call order
\* and after them the results of the delegation calls in their call order;
\* the appended order is the emitted call order exactly when no delegation
\* call stands before a reflection call; and at DONE the notes are the
\* contents of the Tool Results in the order they were appended.
ReflectionResultsFirst ==
    /\ [][(sup_node \in {"supervisor_tools", "gather"} /\ sup_node' = "supervisor") =>
            /\ ResultIds(Appended)
                  = CallIds(ReflectionCalls(LastAssistant))
                    \o CallIds(DelegationCalls(LastAssistant))
            /\ (ResultIds(Appended) = CallIds(LastAssistant.tool_calls))
                  <=> ~DelegationBeforeReflection(LastAssistant)]_vars
    /\ [](DONE =>
            /\ Len(notes) = Cardinality({k \in 1..Len(supervisor_messages) :
                                            supervisor_messages[k].type = "tool"})
            /\ \A a, b \in 1..Len(supervisor_messages) :
                  (/\ a < b
                   /\ supervisor_messages[a].type = "tool"
                   /\ supervisor_messages[b].type = "tool") =>
                      \E x, y \in 1..Len(notes) :
                          /\ x < y
                          /\ notes[x] = supervisor_messages[a].content
                          /\ notes[y] = supervisor_messages[b].content)

\* a finished run with a round whose delegation call was emitted before its
\* reflection call: the acknowledgment stands before the synthesis in the
\* transcript and in the notes
ReflectionResultsFirstWitness ==
    /\ DONE
    /\ Len(supervisor_messages) >= 4
    /\ LET m == supervisor_messages[2]
       IN /\ Len(m.tool_calls) = 2
          /\ m.tool_calls[1].name = "ConductResearch"
          /\ m.tool_calls[2].name = "think_tool"
          /\ supervisor_messages[3].tool_call_id = m.tool_calls[2].id
          /\ supervisor_messages[4].tool_call_id = m.tool_calls[1].id
          /\ notes[1] = supervisor_messages[3].content
          /\ notes[2] = supervisor_messages[4].content

----------------------------------------------------------------------------
\* an EXECUTING step that takes the fault path
FaultStep ==
    /\ sup_node' = END
    /\ \/ EXECUTING /\ ~Terminating
       \/ sup_node = "gather"

\* C28. A faulting round leaves no trace: the EXECUTING step that takes the
\* fault path leaves the coordination transcript and the raw notes as they
\* were, so no call of the round's assistant message has a Tool Result,
\* whether its reflection was already executed or its Worker had returned,
\* and the notes it writes are the Tool Result contents of the earlier
\* rounds only.
FaultLeavesNoTrace ==
    [][FaultStep =>
        /\ supervisor_messages' = supervisor_messages
        /\ raw_notes' = raw_notes
        /\ LastAssistant.type = "ai"
        /\ \A c \in 1..Len(LastAssistant.tool_calls) :
              ResultsFor(supervisor_messages', LastAssistant.tool_calls[c].id) = {}
        /\ notes' = notes \o ToolResultContents(
                                SubSeq(supervisor_messages, 1,
                                       Len(supervisor_messages) - 1))
        /\ \A i \in 1..Len(workers) :
              workers[i].pc = END =>
                  /\ workers[i].compressed_research[1] \notin Range(notes')
                  /\ \A k \in 1..Len(workers[i].raw_notes) :
                        workers[i].raw_notes[k] \notin Range(raw_notes')]_vars

\* a second round ended by a Worker's fault after its reflection call was
\* executed and a sibling Worker had returned: the notes are those of the
\* first round
FaultLeavesNoTraceWitness ==
    /\ DONE
    /\ research_iterations = 2
    /\ WorkerRaised
    /\ \E i \in 1..Len(workers) : workers[i].pc = END
    /\ "think_tool" \in CallNames(LastAssistant)
    /\ Len(DelegationCalls(LastAssistant)) = 2
    /\ Len(notes) = 1
    /\ notes = ToolResultContents(supervisor_messages)

----------------------------------------------------------------------------
\* MCP researcher (research_agent_mcp.py): the lazily constructed client.
\* The nodes are coroutines on one event loop: a step runs without
\* interruption from one await to the next.

\* runs of the MCP researcher graph on the event loop
MaxMcpWorkers == 3

\* most tool rounds of one MCP researcher
MaxMcpTurns == 1

client_is_None_always(c) == TRUE

\* if _client is None
client_is_None(c) == c = None

\* MultiServerMCPClient(mcp_config): a new object, named by its number
MultiServerMCPClient == constructed + 1

\* client = get_mcp_client(), up to the await that follows it
get_mcp_client(i) ==
    /\ _client' = IF client_is_None(_client) THEN MultiServerMCPClient
                  ELSE _client
    /\ constructed' = IF client_is_None(_client) THEN constructed + 1
                      ELSE constructed
    /\ mcp_workers' = [mcp_workers EXCEPT ![i].client = _client',
                                          ![i].pc = "get_tools"]

InitMcp ==
    /\ NoWorkflow
    /\ NoSearch
    /\ _client = None
    /\ constructed = 0
    /\ mcp_workers = [i \in 1..MaxMcpWorkers |->
                         [node |-> "llm_call", pc |-> "enter",
                          client |-> None, tool_rounds |-> 0]]

\* llm_call up to await client.get_tools()
mcp_llm_call(i) ==
    /\ mcp_workers[i].node = "llm_call"
    /\ mcp_workers[i].pc = "enter"
    /\ get_mcp_client(i)
    /\ UNCHANGED <<workflow_vars, search_vars>>

\* llm_call after the await: the model answers with tool calls or without,
\* and should_continue routes
mcp_llm_call_resume(i) ==
    /\ mcp_workers[i].node = "llm_call"
    /\ mcp_workers[i].pc = "get_tools"
    /\ \E calls \in {k \in 0..1 : mcp_workers[i].tool_rounds + k <= MaxMcpTurns} :
          mcp_workers' = [mcp_workers EXCEPT
              ![i].node = IF calls > 0 THEN "tool_node" ELSE "compress_research",
              ![i].pc = "enter"]
    /\ UNCHANGED <<_client, constructed, workflow_vars, search_vars>>

\* tool_node up to await client.get_tools() in execute_tools
mcp_tool_node(i) ==
    /\ mcp_workers[i].node = "tool_node"
    /\ mcp_workers[i].pc = "enter"
    /\ get_mcp_client(i)
    /\ UNCHANGED <<workflow_vars, search_vars>>

\* tool_node after the await: the tools run and the results are returned
mcp_tool_node_resume(i) ==
    /\ mcp_workers[i].node = "tool_node"
    /\ mcp_workers[i].pc = "get_tools"
    /\ mcp_workers' = [mcp_workers EXCEPT
          ![i].node = "llm_call",
          ![i].pc = "enter",
          ![i].tool_rounds = mcp_workers[i].tool_rounds + 1]
    /\ UNCHANGED <<_client, constructed, workflow_vars, search_vars>>

\* compress_research does not use the client
mcp_compress_research(i) ==
    /\ mcp_workers[i].node = "compress_research"
    /\ mcp_workers' = [mcp_workers EXCEPT ![i].node = END]
    /\ UNCHANGED <<_client, constructed, workflow_vars, search_vars>>

NextMcp ==
    \/ \E i \in 1..Len(mcp_workers) : mcp_llm_call(i)
    \/ \E i \in 1..Len(mcp_workers) : mcp_llm_call_resume(i)
    \/ \E i \in 1..Len(mcp_workers) : mcp_tool_node(i)
    \/ \E i \in 1..Len(mcp_workers) : mcp_tool_node_resume(i)
    \/ \E i \in 1..Len(mcp_workers) : mcp_compress_research(i)

McpSpec == InitMcp /\ [][NextMcp]_vars

\* C29. The lazy service handle is a singleton: however the steps of the
\* concurrently running MCP Workers interleave, at most one client is ever
\* constructed, and every get_mcp_client call returns the client the module
\* holds, the same one for every Worker and for every later call.
LazySingleton ==
    /\ [](constructed <= 1)
    /\ [](\A i \in 1..Len(mcp_workers) :
            mcp_workers[i].client # None =>
                /\ _client # None
                /\ mcp_workers[i].client = _client)
    /\ [][/\ _client # None => _client' = _client
          /\ \A i \in 1..Len(mcp_workers) :
                (mcp_workers[i].pc = "enter" /\ mcp_workers'[i].pc = "get_tools") =>
                    /\ mcp_workers'[i].client = _client'
                    /\ mcp_workers'[i].client # None]_vars

\* one Worker suspended in its tool_node, after its second call, and the two
\* others suspended in llm_call, after their first
LazySingletonWitness ==
    /\ constructed = 1
    /\ \A i \in 1..Len(mcp_workers) :
          /\ mcp_workers[i].pc = "get_tools"
          /\ mcp_workers[i].client = _client
    /\ mcp_workers[1].node = "tool_node"
    /\ mcp_workers[2].node = "llm_call"
    /\ mcp_workers[3].node = "llm_call"

====
